---- MODULE Spec2Model ----
(***************************************************************************)
(* heymans.model._base_model.BaseModel: the token usage counters, the      *)
(* message role mapping, the length estimator, and the dispatch of         *)
(* predict_multiple over invoke / async_invoke.                            *)
(***************************************************************************)
EXTENDS Integers, Sequences, FiniteSets, TLC

VARIABLES
    total_tokens_consumed,       \* self.total_tokens_consumed
    prompt_tokens_consumed,      \* self.prompt_tokens_consumed
    completion_tokens_consumed,  \* self.completion_tokens_consumed
    _tools,                      \* self._tools
    loop,                        \* the calling thread's asyncio event loop
    pc,                          \* where the instance's current call stands
    op,                          \* the current (or last) call and its arguments
    prompts,                     \* predict_multiple: the converted prompts
    calls,                       \* predict_multiple: the model calls issued
    ret                          \* the outcome of the last call that ended

vars == <<total_tokens_consumed, prompt_tokens_consumed,
          completion_tokens_consumed, _tools, loop, pc, op, prompts, calls,
          ret>>

counters == <<total_tokens_consumed, prompt_tokens_consumed,
              completion_tokens_consumed>>

-----------------------------------------------------------------------------
(* Bounds of the model.                                                    *)

\* the counters are capped: predict is not taken past this total
MaxTokens == 2
\* the longest message list handed to predict / messages_length
MaxMessages == 2
\* the longest prompt list handed to predict_multiple
MaxPrompts == 2

-----------------------------------------------------------------------------
(* Python values. Every value is a record tagged with its class.           *)

PyStr(s) == [cls |-> "str", val |-> s]
PyList(items) == [cls |-> "list", items |-> items]
PyNone == [cls |-> "NoneType"]
Message(cls, text) == [cls |-> cls, content |-> PyStr(text)]
dict(role, content) == [cls |-> "dict", role |-> role, content |-> content]

\* a call either returns a value or raises
Return(value) == [ok |-> TRUE, value |-> value]
Raise(exception) == [ok |-> FALSE, raises |-> exception]

isinstance(obj, cls) == obj.cls = cls

\* hasattr(m, 'content'): the message objects carry the attribute, a dict
\* carries a key, a str or None neither
hasattr_content(m) == m.cls # "dict" /\ "content" \in DOMAIN m

\* len(x) of a str or a list; TypeError for an object without a length
len(x) ==
    IF x.cls = "str" THEN Return(Len(x.val))
    ELSE IF x.cls = "list" THEN Return(Len(x.items))
    ELSE Raise("TypeError")

\* the texts that occur as contents: 3 and 5 characters long, so that the
\* floor of a sum differs from the sum of the floors
Texts == {"abc", "hello"}

SupportedClasses == {"SystemMessage", "AIMessage", "HumanMessage", "FunctionMessage"}

\* the inputs of convert_message: plain strings, the four supported message
\* classes, a message class outside the four, a role/content dict, None
Strings == {PyStr(t) : t \in Texts}
SupportedMessages == {Message(c, t) : c \in SupportedClasses, t \in Texts}
OtherObjects == {Message("ChatMessage", t) : t \in Texts}
                  \cup {dict("user", PyStr(t)) : t \in Texts} \cup {PyNone}
Objects == Strings \cup SupportedMessages \cup OtherObjects

-----------------------------------------------------------------------------
(* The pure methods.                                                       *)

characters_per_token == 4

get_response(response) ==
    IF "content" \in DOMAIN response /\ response.cls # "dict"
    THEN Return(response.content)
    ELSE Raise("AttributeError")

\* len(m.content if hasattr(m, 'content') else m['content'])
content_length(m) ==
    IF hasattr_content(m) THEN len(m.content)
    ELSE IF m.cls = "dict" THEN
        IF "content" \in DOMAIN m THEN len(m.content) ELSE Raise("KeyError")
    ELSE Raise("TypeError")

RECURSIVE sum(_)
sum(lengths) ==
    IF lengths = <<>> THEN 0 ELSE Head(lengths).value + sum(Tail(lengths))

messages_length(messages) ==
    IF isinstance(messages, "str") THEN Return(Len(messages.val))
    ELSE IF messages.cls # "list" THEN Raise("TypeError")
    ELSE LET lengths == [i \in 1..Len(messages.items) |->
                            content_length(messages.items[i])]
             failed == {i \in 1..Len(lengths) : ~lengths[i].ok}
         IN  IF failed # {}
             THEN lengths[CHOOSE i \in failed : \A j \in failed : i <= j]
             ELSE Return(sum(lengths))

\* FunctionMessage tagged 'function', the name langchain itself gives it
convert_message_function_role(message) ==
    IF isinstance(message, "str") THEN Return(dict("user", message))
    ELSE IF isinstance(message, "SystemMessage")
        THEN Return(dict("system", message.content))
    ELSE IF isinstance(message, "AIMessage")
        THEN Return(dict("assistant", message.content))
    ELSE IF isinstance(message, "HumanMessage")
        THEN Return(dict("user", message.content))
    ELSE IF isinstance(message, "FunctionMessage")
        THEN Return(dict("function", message.content))
    ELSE Raise("ValueError")

\* no else branch: whatever is left is taken for a user message
convert_message_lenient(message) ==
    IF isinstance(message, "str") THEN Return(dict("user", message))
    ELSE IF isinstance(message, "SystemMessage")
        THEN Return(dict("system", message.content))
    ELSE IF isinstance(message, "AIMessage")
        THEN Return(dict("assistant", message.content))
    ELSE IF isinstance(message, "FunctionMessage")
        THEN Return(dict("tool", message.content))
    ELSE Return(dict("user", IF "content" \in DOMAIN message
                             THEN message.content ELSE PyStr("")))

convert_message(message) ==
    IF isinstance(message, "str") THEN Return(dict("user", message))
    ELSE IF isinstance(message, "SystemMessage")
        THEN Return(dict("system", message.content))
    ELSE IF isinstance(message, "AIMessage")
        THEN Return(dict("assistant", message.content))
    ELSE IF isinstance(message, "HumanMessage")
        THEN Return(dict("user", message.content))
    ELSE IF isinstance(message, "FunctionMessage")
        THEN Return(dict("tool", message.content))
    ELSE Raise("ValueError")

\* a tool: its tool_spec is a (truthy) spec or None
Tool(spec) == [cls |-> "tool", tool_spec |-> spec]
ToolLists == {PyNone, PyList(<<Tool("search"), Tool("")>>)}

tools ==
    IF _tools = PyNone THEN PyList(<<>>)
    ELSE PyList(SelectSeq(
            [i \in 1..Len(_tools.items) |->
                [type |-> "function", function |-> _tools.items[i].tool_spec]],
            LAMBDA d : d.function # ""))

-----------------------------------------------------------------------------
(* The inputs of the calls and the answers of the model behind invoke.     *)

RECURSIVE SeqsUpTo(_, _)
SeqsUpTo(S, n) ==
    IF n = 0 THEN {<<>>}
    ELSE LET shorter == SeqsUpTo(S, n - 1)
         IN  shorter \cup {Append(q, x) : q \in {r \in shorter : Len(r) = n - 1}, x \in S}

\* what a message list handed to predict holds: message objects, dicts, and
\* a bare str (which has no content)
ListItems == {Message("HumanMessage", "abc"), Message("AIMessage", "hello"),
              dict("system", PyStr("hello")), PyStr("abc")}
MessageInputs == Strings \cup {PyList(q) : q \in SeqsUpTo(ListItems, MaxMessages)}

\* what predict_multiple is handed: a string, one prompt per supported class,
\* and two objects of unrecognized type
PromptValues == {PyStr("abc"), Message("SystemMessage", "hello"),
                 Message("AIMessage", "abc"), Message("HumanMessage", "hello"),
                 Message("FunctionMessage", "abc"),
                 Message("ChatMessage", "abc"), PyNone}
PromptLists == SeqsUpTo(PromptValues, MaxPrompts)

\* what the model returns: a message with text, a message whose content is
\* not a str, or an object without content
Responses == {Message("AIMessage", t) : t \in Texts}
               \cup {[cls |-> "AIMessage", content |-> PyList(<<>>)], PyNone}
\* invoke / async_invoke of a subclass answer or fail; BaseModel's own raise
\* NotImplementedError
Outcomes == {Return(r) : r \in Responses} \cup {Raise("NotImplementedError")}
\* the answers to the prompts of predict_multiple
PromptOutcomes == {Return(Message("AIMessage", t)) : t \in Texts}
                    \cup {Raise("NotImplementedError")}

LoopStates == {"none", "idle", "running"}

-----------------------------------------------------------------------------
(* predict                                                                 *)

\* rounding up instead of down
prompt_tokens_rounded_up(msg_len) ==
    (msg_len + characters_per_token - 1) \div characters_per_token

prompt_tokens(msg_len) == msg_len \div characters_per_token

completion_tokens(reply_len) == reply_len \div characters_per_token

\* the completion left out of the total
total_tokens_prompt_only(prompt, completion) == prompt

total_tokens(prompt, completion) == prompt + completion

\* the flag ignored
tracking_always(track_tokens) == TRUE

\* if track_tokens:
tracking(track_tokens) == track_tokens

\* = in place of +=
Overwrite(counter, tokens) == tokens

\* self.<counter> += tokens
Accumulate(counter, tokens) == counter + tokens

\* predict_multiple's locals are not touched
NoCall == UNCHANGED <<prompts, calls>>

Predict(messages, track_tokens, invoked) ==
    /\ pc = "idle"
    /\ op' = [name |-> "predict", messages |-> messages,
              track_tokens |-> track_tokens]
    /\ LET reply == IF invoked.ok THEN get_response(invoked.value) ELSE invoked
           msg_len == messages_length(messages)
       IN  IF ~reply.ok
           THEN ret' = reply /\ UNCHANGED counters
           ELSE IF ~msg_len.ok
           THEN ret' = msg_len /\ UNCHANGED counters
           ELSE LET prompt == prompt_tokens(msg_len.value)
                    reply_len == IF isinstance(reply.value, "str")
                                 THEN Len(reply.value.val) ELSE 0
                    completion == completion_tokens(reply_len)
                    total == total_tokens(prompt, completion)
                IN  /\ ret' = reply
                    /\ IF tracking(track_tokens)
                       THEN /\ total_tokens_consumed' =
                                    Accumulate(total_tokens_consumed, total)
                            /\ prompt_tokens_consumed' =
                                    Accumulate(prompt_tokens_consumed, prompt)
                            /\ completion_tokens_consumed' =
                                    Accumulate(completion_tokens_consumed, completion)
                            /\ total_tokens_consumed' <= MaxTokens
                            /\ prompt_tokens_consumed' <= MaxTokens
                            /\ completion_tokens_consumed' <= MaxTokens
                       ELSE UNCHANGED counters
    /\ pc' = "return"
    /\ NoCall
    /\ UNCHANGED <<_tools, loop>>

-----------------------------------------------------------------------------
(* the pure methods, called on the instance                                *)

ConvertMessage(message) ==
    /\ pc = "idle"
    /\ op' = [name |-> "convert_message", message |-> message]
    /\ ret' = convert_message(message)
    /\ pc' = "return"
    /\ NoCall
    /\ UNCHANGED <<counters, _tools, loop>>

MessagesLength(messages) ==
    /\ pc = "idle"
    /\ op' = [name |-> "messages_length", messages |-> messages]
    /\ ret' = messages_length(messages)
    /\ pc' = "return"
    /\ NoCall
    /\ UNCHANGED <<counters, _tools, loop>>

ToolsCall ==
    /\ pc = "idle"
    /\ op' = [name |-> "tools"]
    /\ ret' = Return(tools)
    /\ pc' = "return"
    /\ NoCall
    /\ UNCHANGED <<counters, _tools, loop>>

\* the caller's side: the thread's event loop is set, dropped, or the next
\* call comes from inside a running loop
EventLoop(state) ==
    /\ pc = "idle"
    /\ state # loop
    /\ loop' = state
    /\ NoCall
    /\ UNCHANGED <<counters, _tools, pc, op, ret>>

\* the call has ended and its outcome is with the caller, who goes on
NoOp == [name |-> "none"]
Resume ==
    /\ pc = "return"
    /\ pc' = "idle"
    /\ op' = NoOp
    /\ ret' = Return(PyNone)
    /\ prompts' = <<>>
    /\ calls' = <<>>
    /\ UNCHANGED <<counters, _tools, loop>>

-----------------------------------------------------------------------------
(* predict_multiple                                                        *)

\* a prompt that cannot be converted is passed on as it is
convert_prompts_unchecked(ps) ==
    LET converted == [i \in 1..Len(ps) |-> convert_message(ps[i])]
    IN  Return([i \in 1..Len(ps) |->
                  PyList(<<IF converted[i].ok THEN converted[i].value ELSE ps[i]>>)])

\* prompts = [[self.convert_message(prompt)] for prompt in prompts]
convert_prompts(ps) ==
    LET converted == [i \in 1..Len(ps) |-> convert_message(ps[i])]
        failed == {i \in 1..Len(ps) : ~converted[i].ok}
    IN  IF failed # {}
        THEN converted[CHOOSE i \in failed : \A j \in failed : i <= j]
        ELSE Return([i \in 1..Len(ps) |-> PyList(<<converted[i].value>>)])

\* the running loop not looked at
use_async_always(state) == TRUE

\* the try block: asynchronous unless get_event_loop() hands back a loop
\* that is running; without a loop (RuntimeError) one is created
use_async(state) == state # "running"

Call(via, messages, state, response) ==
    [via |-> via, messages |-> messages, state |-> state, response |-> response]

PredictMultiple(ps) ==
    /\ pc = "idle"
    /\ op' = [name |-> "predict_multiple", prompts |-> ps,
              loop |-> loop]
    /\ calls' = <<>>
    /\ LET converted == convert_prompts(ps)
       IN  IF ~converted.ok
           THEN /\ ret' = converted
                /\ prompts' = <<>>
                /\ pc' = "return"
                /\ UNCHANGED loop
           ELSE /\ prompts' = converted.value
                /\ ret' = Return(PyNone)
                /\ IF use_async(loop)
                   THEN pc' = "wrap_gather" /\ loop' = "running"
                   ELSE pc' = "invoke" /\ UNCHANGED loop
    /\ UNCHANGED <<counters, _tools>>

\* return [self.get_response(self.invoke(prompt)) for prompt in prompts]:
\* one iteration
Invoke(invoked) ==
    /\ pc = "invoke"
    /\ Len(calls) < Len(prompts)
    /\ LET k == Len(calls) + 1
           reply == IF invoked.ok THEN get_response(invoked.value) ELSE invoked
       IN  /\ calls' = Append(calls,
                  IF invoked.ok
                  THEN Call("invoke", prompts[k], "returned", invoked.value)
                  ELSE Call("invoke", prompts[k], "raised", PyNone))
           /\ IF reply.ok
              THEN UNCHANGED <<pc, ret>>
              ELSE pc' = "return" /\ ret' = reply
    /\ UNCHANGED <<counters, _tools, loop, op, prompts>>

\* the list comprehension is exhausted
InvokeReturn ==
    /\ pc = "invoke"
    /\ Len(calls) = Len(prompts)
    /\ ret' = Return(PyList([i \in 1..Len(calls) |->
                                get_response(calls[i].response).value]))
    /\ pc' = "return"
    /\ UNCHANGED <<counters, _tools, loop, op, prompts, calls>>

\* each call awaited before the next one is made
await_each(cs, ps) ==
    IF \E i \in 1..Len(cs) : cs[i].state = "pending" THEN "gather"
    ELSE IF Len(cs) < Len(ps) THEN "tasks" ELSE "gather"

\* where wrap_gather stands: building the list of tasks (line 111) until
\* every prompt has its call, then awaiting the one gather (line 112)
wrap_gather_at(cs, ps) == IF Len(cs) < Len(ps) THEN "tasks" ELSE "gather"

\* tasks = [self.async_invoke(prompt) for prompt in prompts]: one iteration;
\* the call hands back an awaitable, or raises on the spot as BaseModel's does
AsyncInvoke(started) ==
    /\ pc = "wrap_gather"
    /\ Len(calls) < Len(prompts)
    /\ wrap_gather_at(calls, prompts) = "tasks"
    /\ LET k == Len(calls) + 1
       IN  IF started
           THEN /\ calls' = Append(calls,
                       Call("async_invoke", prompts[k], "pending", PyNone))
                /\ UNCHANGED <<pc, loop, ret>>
           ELSE /\ calls' = Append(calls,
                       Call("async_invoke", prompts[k], "raised", PyNone))
                /\ ret' = Raise("NotImplementedError")
                /\ pc' = "return"
                /\ loop' = "idle"
    /\ UNCHANGED <<counters, _tools, op, prompts>>

\* while gather is awaited the loop runs the calls; call i ends. The first
\* exception is handed to the awaiter at once
Complete(i, outcome) ==
    /\ pc = "wrap_gather"
    /\ wrap_gather_at(calls, prompts) = "gather"
    /\ i \in 1..Len(calls)
    /\ calls[i].state = "pending"
    /\ IF outcome.ok
       THEN /\ calls' = [calls EXCEPT ![i].state = "returned",
                                      ![i].response = outcome.value]
            /\ UNCHANGED <<pc, loop, ret>>
       ELSE /\ calls' = [calls EXCEPT ![i].state = "failed"]
            /\ ret' = outcome
            /\ pc' = "return"
            /\ loop' = "idle"
    /\ UNCHANGED <<counters, _tools, op, prompts>>

\* the results in reverse
gather_reversed(cs) == [i \in 1..Len(cs) |-> cs[Len(cs) + 1 - i].response]

\* asyncio.gather(*tasks): the results in the order of the awaitables
gather(cs) == [i \in 1..Len(cs) |-> cs[i].response]

\* predictions = await asyncio.gather(*tasks)
\* return [self.get_response(p) for p in predictions]
GatherReturn ==
    /\ pc = "wrap_gather"
    /\ wrap_gather_at(calls, prompts) = "gather"
    /\ \A i \in 1..Len(calls) : calls[i].state = "returned"
    /\ LET predictions == gather(calls)
           replies == [i \in 1..Len(predictions) |-> get_response(predictions[i])]
           failed == {i \in 1..Len(replies) : ~replies[i].ok}
       IN  ret' = IF failed # {}
                  THEN replies[CHOOSE i \in failed : \A j \in failed : i <= j]
                  ELSE Return(PyList([i \in 1..Len(replies) |-> replies[i].value]))
    /\ pc' = "return"
    /\ loop' = "idle"
    /\ UNCHANGED <<counters, _tools, op, prompts, calls>>

-----------------------------------------------------------------------------

Init ==
    /\ total_tokens_consumed = 0
    /\ prompt_tokens_consumed = 0
    /\ completion_tokens_consumed = 0
    /\ _tools \in ToolLists
    /\ loop = "none"
    /\ pc = "idle"
    /\ op = NoOp
    /\ prompts = <<>>
    /\ calls = <<>>
    /\ ret = Return(PyNone)

Next ==
    \/ \E messages \in MessageInputs, track_tokens \in BOOLEAN, invoked \in Outcomes :
            Predict(messages, track_tokens, invoked)
    \/ \E message \in Objects : ConvertMessage(message)
    \/ \E messages \in MessageInputs : MessagesLength(messages)
    \/ ToolsCall
    \/ \E state \in LoopStates : EventLoop(state)
    \/ Resume
    \/ \E ps \in PromptLists : PredictMultiple(ps)
    \/ \E invoked \in PromptOutcomes : Invoke(invoked)
    \/ InvokeReturn
    \/ \E started \in BOOLEAN : AsyncInvoke(started)
    \/ \E i \in 1..MaxPrompts + 1, outcome \in PromptOutcomes : Complete(i, outcome)
    \/ GatherReturn

Spec == Init /\ [][Next]_vars

-----------------------------------------------------------------------------
(* The properties.                                                         *)

IsPredictMultiple == op.name = "predict_multiple"

\* C1: in every reachable state total_tokens_consumed equals
\* prompt_tokens_consumed + completion_tokens_consumed
C1_Additive ==
    total_tokens_consumed = prompt_tokens_consumed + completion_tokens_consumed

\* a tracked predict has counted both prompt and completion tokens
C1_Witness ==
    /\ pc = "return" /\ op.name = "predict" /\ op.track_tokens /\ ret.ok
    /\ prompt_tokens_consumed > 0
    /\ completion_tokens_consumed > 0

\* C2: the three counters are 0 at creation and no step of any operation
\* lowers one of them (so none is ever negative and none returns to 0)
C2_Monotone ==
    /\ total_tokens_consumed = 0
    /\ prompt_tokens_consumed = 0
    /\ completion_tokens_consumed = 0
    /\ [][/\ total_tokens_consumed' >= total_tokens_consumed
          /\ prompt_tokens_consumed' >= prompt_tokens_consumed
          /\ completion_tokens_consumed' >= completion_tokens_consumed]_vars

\* a tracked predict that counts tokens on top of tokens counted earlier
C2_Witness ==
    /\ pc = "return" /\ op.name = "predict" /\ op.track_tokens /\ ret.ok
    /\ op.messages = PyStr("hello")
    /\ total_tokens_consumed >= 2

RoleOf(cls) ==
    CASE cls = "SystemMessage" -> "system"
      [] cls = "AIMessage" -> "assistant"
      [] cls = "HumanMessage" -> "user"
      [] cls = "FunctionMessage" -> "tool"

\* C3: for a message of one of the four supported classes convert_message
\* returns, without error, {role, content} with the role of the class and
\* the message's content unchanged
C3_ConvertSupported ==
    (pc = "return" /\ op.name = "convert_message"
        /\ op.message.cls \in SupportedClasses)
    => ret = Return([cls |-> "dict", role |-> RoleOf(op.message.cls),
                     content |-> op.message.content])

\* convert_message has returned for a FunctionMessage
C3_Witness ==
    /\ pc = "return" /\ op.name = "convert_message"
    /\ op.message = Message("FunctionMessage", "hello")
    /\ ret.ok

\* C4 as stated: every input outside the four supported classes, plain
\* strings included, makes convert_message raise ValueError
C4_Original ==
    (pc = "return" /\ op.name = "convert_message"
        /\ op.message.cls \notin SupportedClasses)
    => ret = Raise("ValueError")

\* C4, amended: an input that is neither of the four supported classes nor a
\* plain string makes convert_message raise ValueError; a plain string is
\* returned as {role: 'user', content: the string}
C4_ConvertUnsupported ==
    (pc = "return" /\ op.name = "convert_message")
    => /\ op.message.cls \notin SupportedClasses \cup {"str"}
            => ret = Raise("ValueError")
       /\ op.message.cls = "str"
            => ret = Return([cls |-> "dict", role |-> "user",
                             content |-> op.message])

\* convert_message has raised for a message class outside the four
C4_Witness ==
    /\ pc = "return" /\ op.name = "convert_message"
    /\ op.message = Message("ChatMessage", "abc")
    /\ ret = Raise("ValueError")

\* C5: called with a loop running, predict_multiple makes its calls through
\* invoke only, one after another; called with no loop running (an idle loop
\* or none), through async_invoke only; a call that returns has made one call
\* per prompt
C5_Dispatch ==
    IsPredictMultiple =>
        /\ op.loop = "running" =>
              /\ pc \in {"invoke", "return"}
              /\ \A i \in 1..Len(calls) :
                    calls[i].via = "invoke" /\ calls[i].state # "pending"
        /\ op.loop # "running" =>
              /\ pc \in {"wrap_gather", "return"}
              /\ \A i \in 1..Len(calls) : calls[i].via = "async_invoke"
        /\ (pc = "return" /\ ret.ok) => Len(calls) = Len(op.prompts)

\* called with a loop running, predict_multiple has returned two results
C5_Witness ==
    /\ IsPredictMultiple /\ op.loop = "running"
    /\ pc = "return" /\ ret.ok
    /\ Len(calls) = 2

C6_Length(text) == Len(text.val)

RECURSIVE C6_ContentLengths(_)
C6_ContentLengths(items) ==
    IF items = <<>> THEN 0
    ELSE C6_Length(Head(items).content) + C6_ContentLengths(Tail(items))

\* L: the string's length, or the sum of the content lengths
C6_L(messages) ==
    IF messages.cls = "str" THEN C6_Length(messages)
    ELSE C6_ContentLengths(messages.items)

\* R: the reply's length when it is a string, else 0
C6_R(reply) == IF reply.cls = "str" THEN C6_Length(reply) ELSE 0

\* C6: a predict call with track_tokens=True that returns adds floor(L / 4)
\* to the prompt count, floor(R / 4) to the completion count and the sum of
\* the two to the total
C6_Tokens ==
    [][(pc = "idle" /\ pc' = "return" /\ op'.name = "predict"
            /\ op'.track_tokens /\ ret'.ok)
       => LET L == C6_L(op'.messages)
              R == C6_R(ret'.value)
          IN  /\ prompt_tokens_consumed' = prompt_tokens_consumed + (L \div 4)
              /\ completion_tokens_consumed' =
                    completion_tokens_consumed + (R \div 4)
              /\ total_tokens_consumed' =
                    total_tokens_consumed + (L \div 4) + (R \div 4)]_vars

\* a tracked predict over two messages of 3 and 5 characters, with a reply
\* of 3 characters, has counted 2 prompt tokens and no completion token
C6_Witness ==
    /\ pc = "return" /\ op.name = "predict" /\ op.track_tokens
    /\ op.messages.cls = "list" /\ Len(op.messages.items) = 2
    /\ ret = Return(PyStr("abc"))
    /\ prompt_tokens_consumed = 2
    /\ completion_tokens_consumed = 0

\* C7: on the concurrent path no call has ended before every prompt's call
\* has been started
C7_AllStartedFirst ==
    (IsPredictMultiple /\ op.loop # "running")
    => ((\E i \in 1..Len(calls) : calls[i].state \in {"returned", "failed"})
            => Len(calls) = Len(prompts))

\* all the calls for two or more prompts are in flight at once
C7_Witness ==
    /\ IsPredictMultiple /\ pc = "wrap_gather"
    /\ Len(prompts) >= 2
    /\ Len(calls) = Len(prompts)
    /\ \A i \in 1..Len(calls) : calls[i].state = "pending"

\* C8: when predict_multiple returns, the list has one element per prompt,
\* one call was made per prompt, and the i-th element is the content of the
\* response to the call made with [convert_message(prompt i)]
C8_ResultPerPrompt ==
    (IsPredictMultiple /\ pc = "return" /\ ret.ok)
    => /\ ret.value.cls = "list"
       /\ Len(ret.value.items) = Len(op.prompts)
       /\ Len(calls) = Len(op.prompts)
       /\ \A i \in 1..Len(op.prompts) :
            /\ calls[i].messages = PyList(<<convert_message(op.prompts[i]).value>>)
            /\ calls[i].state = "returned"
            /\ ret.value.items[i] = calls[i].response.content

\* the concurrent path has returned two different results for two prompts
C8_Witness ==
    /\ IsPredictMultiple /\ op.loop = "idle"
    /\ pc = "return" /\ ret.ok
    /\ Len(op.prompts) = 2
    /\ ret.value.items = <<PyStr("hello"), PyStr("abc")>>

\* C9: a step changes a counter only if it is a predict call with
\* track_tokens=True that returns normally
C9_Frame ==
    [][counters' # counters
       => (pc = "idle" /\ pc' = "return" /\ op'.name = "predict"
             /\ op'.track_tokens /\ ret'.ok)]_vars

\* predict with track_tokens=False has returned a reply of 5 characters to
\* a prompt of 5 characters and nothing has been counted
C9_Witness ==
    /\ pc = "return" /\ op.name = "predict" /\ ~op.track_tokens
    /\ op.messages = PyStr("hello")
    /\ ret = Return(PyStr("hello"))
    /\ total_tokens_consumed = 0

Unrecognized(prompt) == prompt.cls \notin SupportedClasses \cup {"str"}

\* C10: a prompt list holding a prompt of unrecognized type makes
\* predict_multiple raise ValueError without any model call
C10_ConvertFirst ==
    (IsPredictMultiple /\ \E i \in 1..Len(op.prompts) : Unrecognized(op.prompts[i]))
    => /\ pc = "return"
       /\ ret = Raise("ValueError")
       /\ calls = <<>>

\* predict_multiple has raised for a list whose last prompt is unrecognized,
\* called with a loop running
C10_Witness ==
    /\ IsPredictMultiple /\ pc = "return"
    /\ op.loop = "running"
    /\ Len(op.prompts) = 2
    /\ ~Unrecognized(op.prompts[1])
    /\ Unrecognized(op.prompts[2])
    /\ ret = Raise("ValueError")

====
